---- MODULE Spec2Model ----
(***************************************************************************)
(* The elasticsearch_opendistro_detector resource: the four lifecycle      *)
(* callbacks (Create, Read, Update, Delete) and the Get helper of          *)
(* es/resource_elasticsearch_opendistro_detector.go, run by the host       *)
(* framework against one shared server: for one managed object with       *)
(* remote changes in between (Spec), and for two managed objects whose     *)
(* callbacks run concurrently (SpecConc).                                  *)
(*                                                                         *)
(* A callback is split at its HTTP requests: one action is one request     *)
(* together with all the code that runs up to the next request or the      *)
(* return, so that requests of different callbacks and remote changes      *)
(* interleave exactly where the program waits for the network.             *)
(*                                                                         *)
(* JSON text is a sequence of <<key, value>> pairs (the order of the       *)
(* members is part of the text), a decoded JSON object is a set of such    *)
(* pairs with one pair per key.  Keys are numbered in their lexical order. *)
(***************************************************************************)
EXTENDS Integers, Sequences, FiniteSets, TLC

\* ------------------------------------------------------------------ bounds
\* Number of identifiers the server hands out before POST is refused.
MaxIds == 2

\* ----------------------------------------------------------- fixed domains
\* The managed objects (each has its own schema.ResourceData).
Objs == {"a", "b"}

\* Identifiers the server assigns, in the order it assigns them.
IdName == <<"d1", "d2", "d3", "d4">>
Ids == {IdName[i] : i \in 1..MaxIds}

\* An identifier the server never assigned (given to terraform import).
UnknownId == "zz"

\* JSON keys of a detector, numbered in lexical order:
\* 1 = "adjust_pure_negative", 2 = "description", 3 = "name".
Keys == {1, 2, 3}

\* Bodies the operator declares in the configuration (valid JSON texts).
Configs == { << <<3, 1>>, <<2, 1>> >>,
             << <<2, 2>> >>,
             << <<1, 2>>, <<2, 1>> >> }

\* What the other actor writes when it changes a detector remotely.
RemoteBody == << <<2, 1>>, <<3, 2>> >>

\* How one HTTP exchange can end, as seen by PerformRequest.
Outcomes == {"ok", "http_error", "no_response", "bad_body"}

\* --------------------------------------------------------------- JSON text
KeysOf(obj) == {p[1] : p \in obj}

\* json.Unmarshal of an object text: the last member wins for a repeated key.
Decode(s) ==
  {s[i] : i \in {j \in DOMAIN s : \A k \in DOMAIN s : k > j => s[k][1] # s[j][1]}}

RECURSIVE Marshal(_)
\* json.Marshal of a map: members in ascending key order.
Marshal(obj) ==
  IF obj = {} THEN <<>>
  ELSE LET k == CHOOSE x \in KeysOf(obj) : \A y \in KeysOf(obj) : x <= y
           p == CHOOSE q \in obj : q[1] = k
       IN <<p>> \o Marshal(obj \ {p})

\* structure.NormalizeJsonString: decode, then encode again.
NormalizeJsonString(s) == Marshal(Decode(s))

\* The "body" schema's StateFunc: what d.Get("body") yields for a config.
StateFunc(v) == NormalizeJsonString(v)

\* ------------------------------------------------------------- normalizer
\* Keys the server adds as defaults and the normalizer removes.
StripKeys == {1}

\* The value the server gives an injected default.
DefaultVal == 1

\* normalizeDetector: remove the server-injected default fields.
normalizeDetector(obj) == {p \in obj : p[1] \notin StripKeys}

\* ------------------------------------------------------------ the server
\* What the server stores for a submitted detector: the submitted fields
\* plus a default for every injected key the submission left out.
ServerSave(obj) ==
  obj \cup {<<k, DefaultVal>> : k \in (StripKeys \ KeysOf(obj))}

NoDoc == [present |-> FALSE, doc |-> {}]
Stored(obj) == [present |-> TRUE, doc |-> obj]

VARIABLES
  client,   \* generation of the handle getClient returns: "v5", "v6", "v7"
  store,    \* the server: identifier -> stored detector
  nextId,   \* index into IdName of the next identifier the server assigns
  local,    \* per object: the ResourceData, [id, body]
  pc,       \* per object: position of its callback
  call,     \* per object: the callback in progress: which one, the
            \* ResourceData it was entered with, the requests it issued
  last,     \* the callback that returned last: object, callback, the
            \* ResourceData it was entered with, its requests, its result
  sent,     \* per object: the body the server last accepted from it for
            \* the detector it tracks, while nobody else changed that detector
  deleted   \* the objects whose detector their own Delete removed

vars == <<client, store, nextId, local, pc, call, last, sent, deleted>>

\* ------------------------------------------------------------------ errors
Nil == "nil"
NotImplemented == "Detector resource not implemented prior to Elastic v6"
NotFound == "404"
HttpError == "500"
TransportError == "no response"
DecodeError == "error unmarshalling Detector body"

\* The type switch on the client handle: the cases that issue a request.
SupportedAny(c) == TRUE
Supported(c) == c \in {"v6", "v7"}

\* elastic6.IsNotFound(err) || elastic7.IsNotFound(err)
IsNotFoundNever(err) == FALSE
IsNotFound(err) == err = NotFound

\* uritemplates.Expand of ".../detectors/{id}": the item the path names.
ItemPath(id) == id

Exists(st, id) == id \in DOMAIN st /\ st[id].present

\* --------------------------------------------------------- PerformRequest
\* One HTTP exchange.  Yields the response pointer (nil when the transport
\* gave none), the error, and the server's state afterwards.
NilRes == [isNil |-> TRUE, valid |-> FALSE, id |-> "", detector |-> {}]
ErrRes == [isNil |-> FALSE, valid |-> FALSE, id |-> "", detector |-> {}]
Envelope(id, obj) == [isNil |-> FALSE, valid |-> TRUE, id |-> id, detector |-> obj]
Garbled(r, out) == IF out = "bad_body" THEN [r EXCEPT !.valid = FALSE] ELSE r

PerformRequest(method, path, body, out, st, nxt) ==
  IF out = "no_response"
    THEN [res |-> NilRes, err |-> TransportError, store |-> st, nextId |-> nxt]
  ELSE IF out = "http_error"
    THEN [res |-> ErrRes, err |-> HttpError, store |-> st, nextId |-> nxt]
  ELSE IF method = "POST"
    THEN LET new == IdName[nxt]
             doc == ServerSave(Decode(body))
         IN [res |-> Garbled(Envelope(new, doc), out), err |-> Nil,
             store |-> [st EXCEPT ![new] = Stored(doc)], nextId |-> nxt + 1]
  ELSE IF ~Exists(st, path)
    THEN [res |-> ErrRes, err |-> NotFound, store |-> st, nextId |-> nxt]
  ELSE IF method = "GET"
    THEN [res |-> Garbled(Envelope(path, st[path].doc), out), err |-> Nil,
          store |-> st, nextId |-> nxt]
  ELSE IF method = "PUT"
    THEN LET doc == ServerSave(Decode(body))
         IN [res |-> Garbled(Envelope(path, doc), out), err |-> Nil,
             store |-> [st EXCEPT ![path] = Stored(doc)], nextId |-> nxt]
  ELSE \* DELETE
         [res |-> ErrRes, err |-> Nil,
          store |-> [st EXCEPT ![path] = NoDoc], nextId |-> nxt]

\* json.Unmarshal(body, response) into DetectorResponse: the "_id" member
\* and the detector member (the tag matches without regard to case).
UnmarshalTagMismatch(res) == [ID |-> res.id, Detector |-> {}]
Unmarshal(res) == [ID |-> res.id, Detector |-> res.detector]

EmptyResponse == [ID |-> "", Detector |-> {}]

\* The shared tail of the Get, Post and Put helpers: the type switch, the
\* request, `body = res.Body`, the error return, the decoding.  `norm` says
\* whether the helper normalizes the decoded detector.
Exchange(method, path, body, out, norm) ==
  IF ~Supported(client)
    THEN [panic |-> FALSE, issued |-> FALSE, response |-> EmptyResponse,
          err |-> NotImplemented, store |-> store, nextId |-> nextId]
  ELSE LET r == PerformRequest(method, path, body, out, store, nextId)
       IN IF r.res.isNil
            THEN \* res.Body on a nil *Response
                 [panic |-> TRUE, issued |-> TRUE, response |-> EmptyResponse,
                  err |-> r.err, store |-> r.store, nextId |-> r.nextId]
          ELSE IF r.err # Nil
            THEN [panic |-> FALSE, issued |-> TRUE, response |-> EmptyResponse,
                  err |-> r.err, store |-> r.store, nextId |-> r.nextId]
          ELSE IF ~r.res.valid
            THEN [panic |-> FALSE, issued |-> TRUE, response |-> EmptyResponse,
                  err |-> DecodeError, store |-> r.store, nextId |-> r.nextId]
          ELSE LET u == Unmarshal(r.res)
               IN [panic |-> FALSE, issued |-> TRUE,
                   response |-> IF norm
                                  THEN [u EXCEPT !.Detector = normalizeDetector(@)]
                                  ELSE u,
                   err |-> Nil, store |-> r.store, nextId |-> r.nextId]

GetDetectorDropsError(DetectorID, out) ==
  [Exchange("GET", ItemPath(DetectorID), <<>>, out, TRUE) EXCEPT !.err = Nil]

resourceElasticsearchOpenDistroGetDetector(DetectorID, out) ==
  Exchange("GET", ItemPath(DetectorID), <<>>, out, TRUE)

resourceElasticsearchOpenDistroPostDetector(d, out) ==
  Exchange("POST", "", d.body, out, TRUE)

resourceElasticsearchOpenDistroPutDetector(d, out) ==
  Exchange("PUT", ItemPath(d.id), d.body, out, FALSE)

\* ---------------------------------------------------------------- helpers
InFlight(p) == p \in {"create_get", "update_get"}

NoData == [id |-> "", body |-> <<>>]
NoCall == [op |-> "none", start |-> NoData, reqs |-> <<>>]
NoLast == [obj |-> "none", op |-> "none", start |-> NoData, reqs |-> <<>>, result |-> Nil]
Entered(name, d) == [op |-> name, start |-> d, reqs |-> <<>>]

\* One entry of the request log: method, the error the helper ended with,
\* and the identifier and detector the helper decoded from the response.
Entry(m, x) == [m |-> m, err |-> x.err, id |-> x.response.ID, doc |-> x.response.Detector]
Logged(c, m, x) == IF x.issued THEN [c EXCEPT !.reqs = @ \o <<Entry(m, x)>>] ELSE c

\* An unrecovered run-time panic in o's callback: nothing in the callbacks
\* recovers it, so the provider process ends, and with it every callback
\* that is waiting on a request.
Panicked(o) ==
  [q \in Objs |-> IF q = o \/ InFlight(pc[q]) THEN "crashed" ELSE pc[q]]

\* How a step of o's callback c ends: in a panic, at the next request
\* (cont), or by returning err to the host framework.
Ends(o, c, panic, cont, err) ==
  IF panic
    THEN /\ pc' = Panicked(o)
         /\ call' = [call EXCEPT ![o] = c]
         /\ last' = NoLast
  ELSE IF cont # "idle"
    THEN /\ pc' = [pc EXCEPT ![o] = cont]
         /\ call' = [call EXCEPT ![o] = c]
         /\ last' = NoLast
  ELSE /\ pc' = [pc EXCEPT ![o] = "idle"]
       /\ call' = [call EXCEPT ![o] = NoCall]
       /\ last' = [obj |-> o, op |-> c.op, start |-> c.start, reqs |-> c.reqs,
                   result |-> err]

NoSent == [has |-> FALSE, body |-> <<>>]
Accepted(body) == [has |-> TRUE, body |-> body]

\* A remote change of detector `id` as seen by the objects that track it.
Touched(id) ==
  [q \in Objs |-> IF local[q].id = id THEN NoSent ELSE sent[q]]

\* The server can still assign an identifier (caps nextId).
CanAssign(out) ==
  (Supported(client) /\ out \in {"ok", "bad_body"}) => nextId <= MaxIds

\* ------------------------------------------------------------------- Init
Init ==
  /\ client \in {"v5", "v6", "v7"}
  /\ store = [i \in Ids |-> NoDoc]
  /\ nextId = 1
  /\ local = [o \in Objs |-> NoData]
  /\ pc = [o \in Objs |-> "idle"]
  /\ call = [o \in Objs |-> NoCall]
  /\ last = NoLast
  /\ sent = [o \in Objs |-> NoSent]
  /\ deleted = {}

\* ------------------------------------------------------------------- Read
\* The body of resourceElasticsearchOpenDistroDetectorRead on ResourceData d:
\* the ResourceData and the error it ends with (on a panic it does not end).
resourceElasticsearchOpenDistroDetectorRead(d, out) ==
  LET g == resourceElasticsearchOpenDistroGetDetector(d.id, out)
  IN IF g.panic
       THEN [get |-> g, d |-> d, err |-> Nil]
     ELSE IF IsNotFound(g.err)
       THEN [get |-> g, d |-> [d EXCEPT !.id = ""], err |-> Nil]
     ELSE IF g.err # Nil
       THEN [get |-> g, d |-> d, err |-> g.err]
     ELSE [get |-> g,
           d |-> [id |-> g.response.ID,
                  body |-> NormalizeJsonString(Marshal(g.response.Detector))],
           err |-> Nil]

\* The GET of Read and everything after it, for o's callback c.
ReadStep(o, c, out) ==
  LET r == resourceElasticsearchOpenDistroDetectorRead(local[o], out)
  IN /\ store' = r.get.store
     /\ nextId' = r.get.nextId
     /\ local' = [local EXCEPT ![o] = r.d]
     /\ sent' = IF r.d.id = "" THEN [sent EXCEPT ![o] = NoSent] ELSE sent
     /\ deleted' = IF r.d.id = "" THEN deleted \ {o} ELSE deleted
     /\ Ends(o, Logged(c, "GET", r.get), r.get.panic, "idle", r.err)
     /\ UNCHANGED client

\* The host framework calls Read on an object it tracks.
ReadGet(o, out) ==
  /\ pc[o] = "idle"
  /\ local[o].id # ""
  /\ ReadStep(o, Entered("Read", local[o]), out)

\* ----------------------------------------------------------------- Create
SetIdMissing(d, res) == d
\* d.SetId(res.ID) in Create
CreateSetId(d, res) == [d EXCEPT !.id = res.ID]

\* Create up to the return of the POST helper (and SetId on success).
CreatePost(o, cfg, out) ==
  /\ pc[o] = "idle"
  /\ local[o].id = ""
  /\ CanAssign(out)
  /\ LET d == [id |-> "", body |-> StateFunc(cfg)]
         x == resourceElasticsearchOpenDistroPostDetector(d, out)
         ok == ~x.panic /\ x.err = Nil
     IN /\ store' = x.store
        /\ nextId' = x.nextId
        /\ local' = [local EXCEPT ![o] = IF ok THEN CreateSetId(d, x.response) ELSE d]
        /\ sent' = [sent EXCEPT ![o] = IF ok THEN Accepted(d.body) ELSE NoSent]
        /\ Ends(o, Logged(Entered("Create", d), "POST", x), x.panic,
                IF ok THEN "create_get" ELSE "idle", x.err)
  /\ UNCHANGED <<client, deleted>>

\* Create's `return resourceElasticsearchOpenDistroDetectorRead(d, m)`.
CreateGet(o, out) ==
  /\ pc[o] = "create_get"
  /\ ReadStep(o, call[o], out)

\* ----------------------------------------------------------------- Update
\* Update up to the return of the PUT helper.
UpdatePut(o, cfg, out) ==
  /\ pc[o] = "idle"
  /\ local[o].id # ""
  /\ LET d == [id |-> local[o].id, body |-> StateFunc(cfg)]
         x == resourceElasticsearchOpenDistroPutDetector(d, out)
         ok == ~x.panic /\ x.err = Nil
     IN /\ store' = x.store
        /\ nextId' = x.nextId
        /\ local' = [local EXCEPT ![o] = d]
        /\ sent' = IF x.store # store
                     THEN [sent EXCEPT ![o] = Accepted(d.body)]
                     ELSE sent
        /\ Ends(o, Logged(Entered("Update", d), "PUT", x), x.panic,
                IF ok THEN "update_get" ELSE "idle", x.err)
  /\ UNCHANGED <<client, deleted>>

\* Update's `return resourceElasticsearchOpenDistroDetectorRead(d, m)`.
UpdateGet(o, out) ==
  /\ pc[o] = "update_get"
  /\ ReadStep(o, call[o], out)

\* ----------------------------------------------------------------- Delete
DeleteClearsId(d, err) == IF err = Nil THEN [d EXCEPT !.id = ""] ELSE d
\* What Delete leaves in the ResourceData: it never writes to it.
DeleteLeaves(d, err) == d

resourceElasticsearchOpenDistroDetectorDelete(o, out) ==
  /\ pc[o] = "idle"
  /\ local[o].id # ""
  /\ LET r == PerformRequest("DELETE", ItemPath(local[o].id), <<>>, out, store, nextId)
         x == IF Supported(client)
                THEN [issued |-> TRUE, err |-> r.err, response |-> EmptyResponse,
                      store |-> r.store]
                ELSE [issued |-> FALSE, err |-> NotImplemented,
                      response |-> EmptyResponse, store |-> store]
     IN /\ store' = x.store
        /\ local' = [local EXCEPT ![o] = DeleteLeaves(@, x.err)]
        /\ deleted' = IF x.err = Nil THEN deleted \cup {o} ELSE deleted
        /\ sent' = IF x.err = Nil THEN [sent EXCEPT ![o] = NoSent] ELSE sent
        /\ Ends(o, Logged(Entered("Delete", local[o]), "DELETE", x), FALSE, "idle", x.err)
  /\ UNCHANGED <<client, nextId>>

\* -------------------------------------------------------------------- Get
\* The existence and destroy checks call the Get helper on the stored id.
GetHelper(o, out) ==
  /\ pc[o] = "idle"
  /\ local[o].id # ""
  /\ LET g == resourceElasticsearchOpenDistroGetDetector(local[o].id, out)
     IN /\ store' = g.store
        /\ nextId' = g.nextId
        /\ Ends(o, Logged(Entered("Get", local[o]), "GET", g), g.panic, "idle", g.err)
  /\ UNCHANGED <<client, local, sent, deleted>>

\* ----------------------------------------------------------------- Import
\* schema.ImportStatePassthrough: the operator's identifier becomes the id.
\* Only identifiers no other object tracks are imported here.
Import(o, id) ==
  /\ pc[o] = "idle"
  /\ local[o].id = ""
  /\ \/ id = UnknownId
     \/ \E i \in 1..(nextId - 1) : id = IdName[i]
  /\ \A q \in Objs : local[q].id # id
  /\ local' = [local EXCEPT ![o] = [id |-> id, body |-> <<>>]]
  /\ last' = [obj |-> o, op |-> "Import", start |-> local[o], reqs |-> <<>>,
              result |-> Nil]
  /\ sent' = [sent EXCEPT ![o] = NoSent]
  /\ deleted' = deleted \ {o}
  /\ UNCHANGED <<client, store, nextId, pc, call>>

\* ------------------------------------------------------- the other actors
RemoteDelete(id) ==
  /\ Exists(store, id)
  /\ store' = [store EXCEPT ![id] = NoDoc]
  /\ sent' = Touched(id)
  /\ UNCHANGED <<client, nextId, local, pc, call, last, deleted>>

RemoteUpdate(id) ==
  /\ Exists(store, id)
  /\ store[id] # Stored(ServerSave(Decode(RemoteBody)))
  /\ store' = [store EXCEPT ![id] = Stored(ServerSave(Decode(RemoteBody)))]
  /\ sent' = Touched(id)
  /\ UNCHANGED <<client, nextId, local, pc, call, last, deleted>>

\* The objects the host framework manages when callbacks run one at a time.
Managed == {"a"}

Next ==
  \/ \E o \in Managed, cfg \in Configs, out \in Outcomes : CreatePost(o, cfg, out)
  \/ \E o \in Managed, out \in Outcomes : CreateGet(o, out)
  \/ \E o \in Managed, out \in Outcomes : ReadGet(o, out)
  \/ \E o \in Managed, cfg \in Configs, out \in Outcomes : UpdatePut(o, cfg, out)
  \/ \E o \in Managed, out \in Outcomes : UpdateGet(o, out)
  \/ \E o \in Managed, out \in Outcomes : resourceElasticsearchOpenDistroDetectorDelete(o, out)
  \/ \E o \in Managed, out \in Outcomes : GetHelper(o, out)
  \/ \E o \in Managed, id \in Ids \cup {UnknownId} : Import(o, id)
  \/ \E id \in Ids : RemoteDelete(id)
  \/ \E id \in Ids : RemoteUpdate(id)

\* One object, every input, remote changes in between.
Spec == Init /\ [][Next]_vars

\* Bodies declared when two objects are managed concurrently.
ConcConfigs == { << <<3, 1>>, <<2, 1>> >>, << <<2, 2>> >> }

NextConc ==
  \/ \E o \in Objs, cfg \in ConcConfigs, out \in Outcomes : CreatePost(o, cfg, out)
  \/ \E o \in Objs, out \in Outcomes : CreateGet(o, out)
  \/ \E o \in Objs, out \in Outcomes : ReadGet(o, out)
  \/ \E o \in Objs, cfg \in ConcConfigs, out \in Outcomes : UpdatePut(o, cfg, out)
  \/ \E o \in Objs, out \in Outcomes : UpdateGet(o, out)
  \/ \E o \in Objs, out \in Outcomes : resourceElasticsearchOpenDistroDetectorDelete(o, out)
  \/ \E o \in Objs, out \in Outcomes : GetHelper(o, out)
  \/ \E id \in Ids : RemoteDelete(id)

\* Two objects whose callbacks interleave at their requests.
SpecConc == Init /\ [][NextConc]_vars

\* ----------------------------------------------------------------- claims
Callbacks == {"Create", "Read", "Update", "Delete", "Get"}
LastErr(c) == c.reqs[Len(c.reqs)].err

\* C1: Read on an identifier the server answers not-found for clears the
\* local identifier and returns no error on the v6 and v7 clients; on the
\* oldest generation Read returns the "not implemented" error, sends
\* nothing and leaves the local identifier as it was.
C1_ReadOfMissing ==
  last.op = "Read" =>
    /\ (client \in {"v6", "v7"} /\ LastErr(last) = NotFound) =>
         (local[last.obj].id = "" /\ last.result = Nil)
    /\ client = "v5" =>
         (last.result = NotImplemented /\ last.reqs = <<>>
          /\ local[last.obj] = last.start /\ local[last.obj].id # "")

C1_Witness ==
  /\ last.op = "Read" /\ client \in {"v6", "v7"}
  /\ last.start.id # "" /\ LastErr(last) = NotFound
  /\ local[last.obj].id = ""

\* C2 as claimed: whenever Create returns success the stored identifier is
\* non-empty, whatever happens on the server between Create's POST and GET.
C2_CreateSuccessHasId ==
  (last.op = "Create" /\ last.result = Nil) => local[last.obj].id # ""

\* C3: once the server accepted body B from an object's Create or Update
\* and nobody else changed the detector, every Create, Update or Read of
\* that object that returns success with the detector present leaves a
\* local body that normalizes to the same object as B.
C3_RoundTrip ==
  (/\ last.op \in {"Create", "Update", "Read"}
   /\ last.result = Nil
   /\ local[last.obj].id # ""
   /\ sent[last.obj].has) =>
     normalizeDetector(Decode(local[last.obj].body))
       = normalizeDetector(Decode(sent[last.obj].body))

C3_Witness ==
  /\ last.op = "Read" /\ last.result = Nil
  /\ local[last.obj].id # "" /\ sent[last.obj].has
  /\ local[last.obj].body # sent[last.obj].body
  /\ local[last.obj].body # <<>>

\* C4: on the oldest-generation client every callback and the Get helper
\* return the "not implemented" error, no request is ever sent (the server
\* never changes, no call waits on a request) and the ResourceData is left
\* as the callback was entered with.
C4_OldestGeneration ==
  client = "v5" =>
    /\ store = [i \in Ids |-> NoDoc] /\ nextId = 1
    /\ \A o \in Objs : pc[o] = "idle" /\ call[o] = NoCall
    /\ last.op \in Callbacks =>
         /\ last.result = NotImplemented
         /\ last.reqs = <<>>
         /\ local[last.obj] = last.start

C4_Witness ==
  /\ client = "v5" /\ last.op = "Update"
  /\ last.result = NotImplemented /\ local[last.obj].id # ""

\* C5 as claimed: on a supported generation, a Create, Read, Update or Get
\* whose request yields an error ends by returning that error (Read's
\* not-found aside, which it turns into success); it never stops without
\* returning.
C5_ErrorsAreReturned ==
  /\ (client \in {"v6", "v7"} /\ last.op \in Callbacks \ {"Delete"}
      /\ last.reqs # <<>> /\ LastErr(last) # Nil) =>
        IF last.op # "Get" /\ LastErr(last) = NotFound
             /\ last.reqs[Len(last.reqs)].m = "GET"
          THEN last.result = Nil
          ELSE last.result = LastErr(last)
  /\ \A o \in Objs :
       (call[o].op \in Callbacks \ {"Delete"} /\ call[o].reqs # <<>>) =>
          LastErr(call[o]) = Nil

\* C6: after an object's Delete succeeded, a Get on the same identifier
\* that the server answers returns the not-found error.
C6_DeleteThenGet ==
  (/\ last.op = "Get" /\ last.obj \in deleted
   /\ client \in {"v6", "v7"}
   /\ LastErr(last) # HttpError) =>
     last.result = NotFound

C6_Witness ==
  /\ last.op = "Get" /\ last.obj \in deleted
  /\ last.result = NotFound /\ last.start.id \in Ids

\* C7 as claimed: in every Update the PUT comes first and the GET only
\* after the PUT succeeded; if the PUT fails, Update returns that error
\* with no GET sent and the ResourceData unchanged; on success the local
\* body is the one the GET returned, not the PUT's.
UpdateOrder(c) ==
  /\ Len(c.reqs) <= 2
  /\ c.reqs # <<>> => c.reqs[1].m = "PUT"
  /\ Len(c.reqs) = 2 => (c.reqs[1].err = Nil /\ c.reqs[2].m = "GET")

C7_UpdatePutThenGet ==
  /\ last.op = "Update" =>
       /\ UpdateOrder(last)
       /\ (last.reqs # <<>> /\ last.reqs[1].err # Nil) =>
            /\ Len(last.reqs) = 1
            /\ last.result = last.reqs[1].err
            /\ local[last.obj] = last.start
       /\ (Len(last.reqs) = 2 /\ last.reqs[2].err = Nil) =>
            /\ last.result = Nil
            /\ local[last.obj].body = Marshal(last.reqs[2].doc)
            /\ local[last.obj].body # Marshal(last.reqs[1].doc)
  /\ \A o \in Objs : call[o].op = "Update" =>
       /\ UpdateOrder(call[o])
       /\ (call[o].reqs # <<>> => call[o].reqs[1].err = Nil)

\* C8: Delete and the Get helper leave the local identifier and body as
\* they found them, whatever the outcome; the ResourceData of an object
\* changes only in a step of its Create, Read or Update (or its import).
C8_DeleteAndGetKeepLocal ==
  /\ [](/\ last.op \in {"Delete", "Get"} => local[last.obj] = last.start
        /\ \A o \in Objs : call[o].op = "Get" => local[o] = call[o].start)
  /\ [][\A o \in Objs : local'[o] # local[o] =>
          \/ last'.obj = o /\ last'.op \in {"Create", "Read", "Update", "Import"}
          \/ call'[o].op \in {"Create", "Read", "Update"}]_vars

C8_Witness ==
  /\ last.op = "Delete" /\ last.result = Nil
  /\ local[last.obj].id \in Ids /\ ~Exists(store, local[last.obj].id)

\* What a callback entered with c.start does when it runs alone and the
\* server answers its requests as logged in c.reqs.
AloneRead(e, d) ==
  IF e.err = NotFound THEN [pc |-> "idle", d |-> [d EXCEPT !.id = ""], err |-> Nil]
  ELSE IF e.err # Nil THEN [pc |-> "idle", d |-> d, err |-> e.err]
  ELSE [pc |-> "idle", d |-> [id |-> e.id, body |-> Marshal(e.doc)], err |-> Nil]

Alone(c) ==
  LET n == Len(c.reqs)
      posted == [c.start EXCEPT !.id = c.reqs[1].id]
  IN IF n = 0 THEN [pc |-> "idle", d |-> c.start, err |-> NotImplemented]
     ELSE IF c.op \in {"Delete", "Get"} /\ c.reqs[1].err # TransportError
       THEN [pc |-> "idle", d |-> c.start, err |-> c.reqs[1].err]
     ELSE IF c.op = "Delete"
       THEN [pc |-> "idle", d |-> c.start, err |-> c.reqs[1].err]
     ELSE IF c.reqs[n].err = TransportError
       THEN [pc |-> "crashed",
             d |-> IF c.op = "Create" /\ n = 2 THEN posted ELSE c.start,
             err |-> Nil]
     ELSE IF c.op = "Read" THEN AloneRead(c.reqs[1], c.start)
     ELSE IF n = 2
       THEN AloneRead(c.reqs[2], IF c.op = "Create" THEN posted ELSE c.start)
     ELSE IF c.reqs[1].err # Nil
       THEN [pc |-> "idle", d |-> c.start, err |-> c.reqs[1].err]
     ELSE [pc |-> IF c.op = "Create" THEN "create_get" ELSE "update_get",
           d |-> IF c.op = "Create" THEN posted ELSE c.start,
           err |-> Nil]

\* C9 as claimed: with two objects managed concurrently, each callback's
\* position, local identifier, local body and returned error are what the
\* callback yields when it runs alone with the same answers to its requests.
C9_SameAsAlone ==
  /\ last.op \in Callbacks =>
       LET a == Alone(last)
       IN a.pc = "idle" /\ local[last.obj] = a.d /\ last.result = a.err
  /\ \A o \in Objs : call[o].op \in Callbacks =>
       LET a == Alone(call[o])
       IN pc[o] = a.pc /\ local[o] = a.d

\* C10: whenever Create returns an error, the local identifier is the
\* server-assigned one exactly when the POST succeeded and decoded: if the
\* POST or its decoding failed the identifier is empty and no GET was sent;
\* otherwise the GET was sent, its error (not a not-found) is the one
\* returned, and the identifier is the new one.
C10_CreateError ==
  (last.op = "Create" /\ last.result # Nil) =>
    LET r == last.reqs
        posted == r # <<>> /\ r[1].err = Nil
    IN /\ posted <=> local[last.obj].id # ""
       /\ posted =>
            /\ Len(r) = 2 /\ r[2].m = "GET"
            /\ local[last.obj].id = r[1].id
            /\ last.result = r[2].err /\ r[2].err # NotFound
       /\ ~posted =>
            /\ Len(r) <= 1
            /\ r # <<>> => (r[1].m = "POST" /\ last.result = r[1].err)

C10_Witness ==
  /\ last.op = "Create" /\ last.result = HttpError
  /\ Len(last.reqs) = 2 /\ local[last.obj].id \in Ids

====
